---- MODULE Spec2Model ----
(***************************************************************************)
(* Model of src/src/decorators.ts: the decorators that accumulate entity   *)
(* metadata on a class prototype, and registerEntities, which hands that   *)
(* metadata to the mapping engine in two passes.                           *)
(*                                                                         *)
(* JavaScript values are represented as follows.                           *)
(*  - undefined is the string "undefined"; an optional argument is a       *)
(*    sequence of length 0 (null/undefined) or 1 (the value).              *)
(*  - An object whose key order is observable (meta.fields,                *)
(*    meta.associations, the properties set on a model) is a sequence of   *)
(*    [key, val] pairs in insertion order.                                 *)
(*  - An options object is a function from its present keys to values.     *)
(*  - Index objects live in a per-record heap and options.indexes is a     *)
(*    sequence of pointers into it, because Index pushes an object that    *)
(*    may already be in the list (the same reference twice).               *)
(*  - A class is its name; typeFunction is the name of the class it        *)
(*    returns.                                                             *)
(*                                                                         *)
(*  - The options objects of associations live in the heap objects and an  *)
(*    association holds a pointer into it: the decorators write options.as *)
(*    into the object they were given and store that same object, so two   *)
(*    associations declared with one options object (or by applying one    *)
(*    returned decorator function twice) share it.                         *)
(*  - A class whose prototype has no __sequelize_meta__ has the empty list *)
(*    in store; once it exists the list is never empty.                    *)
(*                                                                         *)
(* Entity, Column and Index are applied as @Decorator(...) does: a call of *)
(* the factory followed by one call of the function it returns.            *)
(*                                                                         *)
(* The mapping engine is outside the repository: it is modelled by what    *)
(* registerEntities asks of it, a define call storing a model under its    *)
(* name and an association call returning an accessor; handed an undefined *)
(* target it may return or throw.                                          *)
(***************************************************************************)
EXTENDS Integers, Sequences, FiniteSets, TLC

VARIABLES store, objects, touched, idxLog, last, nOps, reg, sequelize

vars == <<store, objects, touched, idxLog, last, nOps, reg, sequelize>>

Undefined == "undefined"

\* Bounds of the model.
MaxDecor == 3
MaxSetup == 2

\* Input domains.
Classes == {"A", "B"}
StoreClasses == {"A"}
Keys == {"k1", "k2"}
IndexNames == {"n1", "n2"}

EmptyObj == [k \in {} |-> Undefined]

\* Object.assign({}, a, b): the keys of both, b's value winning.
Assign(a, b) ==
    [k \in (DOMAIN a) \cup (DOMAIN b) |-> IF k \in DOMAIN b THEN b[k] ELSE a[k]]

\* obj[key] == null, for an options object with string values under key.
IsNull(obj, key) == IF key \in DOMAIN obj THEN obj[key] = Undefined ELSE TRUE

\* obj[key] = val on an options object.
SetKey(obj, key, val) ==
    [k \in (DOMAIN obj) \cup {key} |-> IF k = key THEN val ELSE obj[k]]

\* obj[key] read, undefined when the key is absent.
GetKey(obj, key) == IF key \in DOMAIN obj THEN obj[key] ELSE Undefined

\* Insertion-ordered objects.
ObjHas(o, k) == \E i \in 1..Len(o) : o[i].key = k

ObjIdx(o, k) == CHOOSE i \in 1..Len(o) : o[i].key = k

ObjGet(o, k) == o[ObjIdx(o, k)].val

\* o[k] = v: an existing key keeps its place, a new key goes last.
ObjPut(o, k, v) ==
    IF ObjHas(o, k)
    THEN [o EXCEPT ![ObjIdx(o, k)] = [key |-> k, val |-> v]]
    ELSE Append(o, [key |-> k, val |-> v])

\* AssociationMethods
HAS_ONE == "hasOne"
BELONGS_TO == "belongsTo"
HAS_MANY == "hasMany"
BELONGS_TO_MANY == "belongsToMany"

\* The record getMeta creates when none is found.
NewMeta(c) ==
    [name |-> c, associations |-> <<>>, fields |-> <<>>, options |-> EmptyObj,
     heap |-> <<>>]

\* The loop of getMeta: the first record whose name is the class's name, 0 if none.
FindMeta(entities, c) ==
    IF \E i \in 1..Len(entities) : entities[i].name = c
    THEN CHOOSE i \in 1..Len(entities) :
            /\ entities[i].name = c
            /\ \A j \in 1..(i - 1) : entities[j].name # c
    ELSE 0

\* getMeta: the list after the call (a fresh record pushed when none was found) ...
getMetaList(entities, c) ==
    IF FindMeta(entities, c) # 0 THEN entities ELSE Append(entities, NewMeta(c))

\* ... and the position of the record it returns.
getMetaIdx(entities, c) ==
    IF FindMeta(entities, c) # 0 THEN FindMeta(entities, c) ELSE Len(entities) + 1

getMeta(entities, c) == getMetaList(entities, c)[getMetaIdx(entities, c)]

\* clean(obj): delete the keys whose value is null.
clean(obj) == [k \in {x \in DOMAIN obj : obj[x] # Undefined} |-> obj[k]]

FalseVal == "false"

\* The ways Entity's first argument is given: nothing, a string, an options object.
NoName == [kind |-> "undefined", str |-> Undefined, obj |-> EmptyObj]

StrName(s) == [kind |-> "string", str |-> s, obj |-> EmptyObj]

ObjName(o) == [kind |-> "object", str |-> Undefined, obj |-> o]

\* Column definitions (DefineAttributeColumnOptions).
Attr1 == [type |-> "STRING", primaryKey |-> FALSE, autoIncrement |-> FALSE]

Attr2 == [type |-> "TEXT", primaryKey |-> FALSE, autoIncrement |-> FALSE]

Attrs == {Attr1, Attr2}

\* The column PrimaryGeneratedColumn stores.
PrimaryAttr == [primaryKey |-> TRUE, type |-> "INTEGER", autoIncrement |-> TRUE]

EntityOptions == {[tableName |-> "t1"], [tableName |-> "t2", createdAt |-> "k1"]}

\* The options argument of an association decorator: nothing, an object made
\* for this call, or an object an earlier application was given.
NewOptions(o) == <<"new", o>>

SharedOptions(p) == <<"ref", p>>

Shared == {SharedOptions(p) : p \in 1..Len(objects)}

AssocOptions == {<<>>, NewOptions([foreignKey |-> "fk"])} \cup Shared

ManyOptions ==
    {<<>>, NewOptions([foreignKey |-> "fk"]), NewOptions([through |-> "J"])} \cup Shared

IndexOptions == {<<>>, <<[name |-> "n1"]>>, <<[name |-> "n2", unique |-> "true"]>>}

NoOp == [op |-> "none", cls |-> Undefined, key |-> Undefined, arg |-> <<>>, threw |-> FALSE]

Op(o, c, k, a, t) == [op |-> o, cls |-> c, key |-> k, arg |-> a, threw |-> t]

NewEngine == [models |-> EmptyObj, calls |-> <<>>]

Idle == [pc |-> "decorating", run |-> 0, i |-> 1, j |-> 1, entities |-> <<<<>>, <<>>>>,
         outcome |-> <<"none", "none">>]

Init ==
    /\ store = [c \in Classes |-> <<>>]
    /\ objects = <<>>
    /\ touched = [c \in Classes |-> 0]
    /\ idxLog = <<>>
    /\ last = NoOp
    /\ nOps = 0
    /\ reg = Idle
    /\ sequelize = <<NewEngine, NewEngine>>

\* A decorator body: getMeta(target), then the record it returned is left as rec.
\* touched, idxLog, last and nOps are history variables.
Decorate(c, rec, desc) ==
    /\ reg.pc = "decorating"
    /\ store' = [store EXCEPT ![c] =
                    [getMetaList(store[c], c) EXCEPT ![getMetaIdx(store[c], c)] = rec]]
    /\ touched' = [touched EXCEPT ![c] = getMetaIdx(store[c], c)]
    /\ last' = desc
    /\ nOps' = nOps + 1
    /\ UNCHANGED <<reg, sequelize>>

\* meta after Entity(name, options) ran on it.
EntityMeta(meta, c, name, options) ==
    LET nm == IF name.kind = "string" THEN name.str ELSE c
        opts == IF name.kind # "string" /\ options = <<>> /\ name.kind = "object"
                THEN <<Assign(name.obj, meta.options)>>
                ELSE options
        merged == Assign(IF opts = <<>> THEN EmptyObj ELSE opts[1], meta.options)
        created == IF IsNull(merged, "createdAt")
                   THEN SetKey(merged, "createdAt", FalseVal) ELSE merged
        updated == IF IsNull(created, "updatedAt")
                   THEN SetKey(created, "updatedAt", FalseVal) ELSE created
    IN  [meta EXCEPT !.name = nm, !.options = updated]

Entity(c, name, options) ==
    /\ Decorate(c, EntityMeta(getMeta(store[c], c), c, name, options),
                Op("Entity", c, Undefined, <<name, options>>, FALSE))
    /\ UNCHANGED <<idxLog, objects>>

Column(c, key, attribute) ==
    /\ Decorate(c, [getMeta(store[c], c) EXCEPT !.fields = ObjPut(@, key, attribute)],
                Op("Column", c, key, <<attribute>>, FALSE))
    /\ UNCHANGED <<idxLog, objects>>

CreatedDateColumn(c, key) ==
    /\ Decorate(c, [getMeta(store[c], c) EXCEPT !.options = SetKey(@, "createdAt", key)],
                Op("CreatedDateColumn", c, key, <<>>, FALSE))
    /\ UNCHANGED <<idxLog, objects>>

UpdatedDateColumn(c, key) ==
    /\ Decorate(c, [getMeta(store[c], c) EXCEPT !.options = SetKey(@, "updatedAt", key)],
                Op("UpdatedDateColumn", c, key, <<>>, FALSE))
    /\ UNCHANGED <<idxLog, objects>>

PrimaryGeneratedColumn(c, key) ==
    /\ Decorate(c, [getMeta(store[c], c) EXCEPT !.fields = ObjPut(@, key, PrimaryAttr)],
                Op("PrimaryGeneratedColumn", c, key, <<>>, FALSE))
    /\ UNCHANGED <<idxLog, objects>>

\* The object options names when the decorator body starts: null, or an object
\* of the heap (one made for this call is not in the heap yet).
OptionsObject(options) ==
    IF options = <<>> THEN <<>>
    ELSE IF options[1] = "new" THEN <<options[2]>>
    ELSE <<objects[options[2]]>>

\* if (options == null) options = {}; the object options then refers to.
OptionsPtr(options) ==
    IF options = <<>> THEN Len(objects) + 1
    ELSE IF options[1] = "new" THEN Len(objects) + 1
    ELSE options[2]

\* options.as = key: written into that object, which other associations may hold.
SetAs(options, key) ==
    IF options = <<>> THEN Append(objects, SetKey(EmptyObj, "as", key))
    ELSE IF options[1] = "new" THEN Append(objects, SetKey(options[2], "as", key))
    ELSE [objects EXCEPT ![options[2]] = SetKey(@, "as", key)]

\* The association a decorator stores; association is the options object itself.
Association(method, typeFunction, options) ==
    [method |-> method, target |-> typeFunction, association |-> OptionsPtr(options)]

HasOne(c, key, typeFunction, options) ==
    /\ Decorate(c, [getMeta(store[c], c) EXCEPT !.associations =
                        ObjPut(@, key, Association(HAS_ONE, typeFunction, options))],
                Op("HasOne", c, key, <<typeFunction, options>>, FALSE))
    /\ objects' = SetAs(options, key)
    /\ UNCHANGED idxLog

HasMany(c, key, typeFunction, options) ==
    /\ Decorate(c, [getMeta(store[c], c) EXCEPT !.associations =
                        ObjPut(@, key, Association(HAS_MANY, typeFunction, options))],
                Op("HasMany", c, key, <<typeFunction, options>>, FALSE))
    /\ objects' = SetAs(options, key)
    /\ UNCHANGED idxLog

BelongsTo(c, key, typeFunction, options) ==
    /\ Decorate(c, [getMeta(store[c], c) EXCEPT !.associations =
                        ObjPut(@, key, Association(BELONGS_TO, typeFunction, options))],
                Op("BelongsTo", c, key, <<typeFunction, options>>, FALSE))
    /\ objects' = SetAs(options, key)
    /\ UNCHANGED idxLog

ThroughNeverMissing(options) == FALSE

\* options.through == null, after options defaulted to {}.
ThroughMissing(options) ==
    IsNull(IF OptionsObject(options) = <<>> THEN EmptyObj ELSE OptionsObject(options)[1],
           "through")

\* getMeta runs first, so a class without a record gets one even when the
\* decorator then throws; it throws before options.as is written.
ManyToMany(c, key, typeFunction, options) ==
    /\ IF ThroughMissing(options)
       THEN /\ Decorate(c, getMeta(store[c], c),
                        Op("ManyToMany", c, key, <<typeFunction, options>>, TRUE))
            /\ UNCHANGED objects
       ELSE /\ Decorate(c, [getMeta(store[c], c) EXCEPT !.associations =
                                ObjPut(@, key,
                                       Association(BELONGS_TO_MANY, typeFunction, options))],
                        Op("ManyToMany", c, key, <<typeFunction, options>>, FALSE))
            /\ objects' = SetAs(options, key)
    /\ UNCHANGED idxLog

\* meta.options.indexes, [] when it was null.
Indexes(meta) ==
    IF "indexes" \in DOMAIN meta.options THEN meta.options["indexes"] ELSE <<>>

\* indexes.find(i => i.name === name): the pointer of the first match, 0 if none.
FindIndex(meta, name) ==
    LET ptrs == Indexes(meta)
        hit(i) == GetKey(meta.heap[ptrs[i]].props, "name") = name
    IN  IF \E i \in 1..Len(ptrs) : hit(i)
        THEN ptrs[CHOOSE i \in 1..Len(ptrs) : hit(i) /\ \A j \in 1..(i - 1) : ~hit(j)]
        ELSE 0

PushFieldFront(fields, key) == <<key>> \o fields

\* index.fields.push(key)
PushField(fields, key) == Append(fields, key)

\* meta after Index(options) ran on (target, key).
IndexMeta(meta, key, options) ==
    LET opts == IF options = <<>> THEN EmptyObj ELSE options[1]
        found == IF GetKey(opts, "name") # Undefined
                 THEN FindIndex(meta, opts["name"]) ELSE 0
        fresh == [props |-> [name |-> GetKey(opts, "name"),
                             unique |-> GetKey(opts, "unique")],
                  fields |-> <<key>>]
        heap1 == IF found = 0
                 THEN Append(meta.heap, fresh)
                 ELSE [meta.heap EXCEPT ![found].fields = PushField(@, key)]
        ptr == IF found = 0 THEN Len(meta.heap) + 1 ELSE found
        heap2 == [heap1 EXCEPT ![ptr].props = clean(@)]
    IN  [meta EXCEPT !.heap = heap2,
                     !.options = SetKey(@, "indexes", Append(Indexes(meta), ptr))]

Index(c, key, options) ==
    /\ Decorate(c, IndexMeta(getMeta(store[c], c), key, options),
                Op("Index", c, key, <<options>>, FALSE))
    /\ UNCHANGED objects
    /\ idxLog' = Append(idxLog,
                        [cls |-> c, rec |-> getMetaIdx(store[c], c), key |-> key,
                         name |-> IF options = <<>> THEN Undefined
                                  ELSE GetKey(options[1], "name")])

\* The options handed to sequelize.define, the index list read through its pointers.
DefineOptions(meta) ==
    [k \in DOMAIN meta.options |->
        IF k = "indexes"
        THEN [n \in 1..Len(meta.options[k]) |-> meta.heap[meta.options[k][n]]]
        ELSE meta.options[k]]

\* sequelize.define(meta.name, meta.fields, meta.options): the model is stored
\* under its name; props are the properties registerEntities later sets on it.
define(engine, meta) ==
    [engine EXCEPT
        !.models = SetKey(@, meta.name,
                          [fields |-> meta.fields, options |-> DefineOptions(meta),
                           props |-> <<>>]),
        !.calls = Append(@, [op |-> "define", name |-> meta.name, target |-> Undefined])]

\* sequelize.models[name]: the handle of a model is its name.
ModelOf(engine, name) == IF name \in DOMAIN engine.models THEN name ELSE Undefined

\* model[method](target, options) returning: the call is logged and its result
\* is stored on the model as model[assnName].
associate(engine, source, assnName, ea, target) ==
    [engine EXCEPT
        !.models[source].props =
            ObjPut(@, assnName, [method |-> ea.method, source |-> source,
                                 target |-> target,
                                 options |-> objects[ea.association]]),
        !.calls = Append(@, [op |-> ea.method, name |-> source, target |-> target])]

\* model[method](target, options) throwing: only the call is logged.
rejected(engine, source, ea, target) ==
    [engine EXCEPT
        !.calls = Append(@, [op |-> ea.method, name |-> source, target |-> target])]

\* The entity lists registerEntities is called with.
Lists ==
    {<<>>} \cup
    {<<c>> : c \in Classes} \cup
    {<<c, d>> : <<c, d>> \in {p \in Classes \X Classes : p[1] # p[2]}}

Range(s) == {s[n] : n \in 1..Len(s)}

Perms(list) == {m \in Lists : Len(m) = Len(list) /\ Range(m) = Range(list)}

Entities == reg.entities[reg.run]

\* registerEntities(sequelize, entities) is entered: on a new engine after the
\* decorators ran, and once more, on a second new engine, with the same classes
\* in any order.
registerEntities ==
    /\ \/ /\ reg.pc = "decorating"
          /\ \E list \in Lists :
                reg' = [reg EXCEPT !.pc = "pass1", !.run = 1, !.i = 1, !.j = 1,
                                   !.entities[1] = list]
       \/ /\ reg.pc = "ended"
          /\ reg.run = 1
          /\ \E list \in Perms(reg.entities[1]) :
                reg' = [reg EXCEPT !.pc = "pass1", !.run = 2, !.i = 1, !.j = 1,
                                   !.entities[2] = list]
    /\ UNCHANGED <<store, objects, touched, idxLog, last, nOps, sequelize>>

\* getMeta(Object.create(entity.prototype)): what it leaves on the class. With
\* no __sequelize_meta__ on the prototype chain the container and the new record
\* are created on the throwaway object and the class stays without metadata;
\* otherwise a missing record is pushed onto the class's own list.
getMetaOnInstance(entities, c) ==
    IF entities = <<>> THEN entities ELSE getMetaList(entities, c)

Pass1EndsEarly(i, entities) == i > 1 \/ i > Len(entities)

\* The first loop is over: every entity of the list has been visited.
Pass1Done(i, entities) == i > Len(entities)

\* One iteration of the first loop: getMeta, then sequelize.define.
Pass1Step ==
    /\ reg.pc = "pass1"
    /\ ~Pass1Done(reg.i, Entities)
    /\ LET entity == Entities[reg.i]
       IN  /\ store' = [store EXCEPT ![entity] = getMetaOnInstance(@, entity)]
           /\ sequelize' = [sequelize EXCEPT ![reg.run] =
                                define(@, getMeta(store[entity], entity))]
    /\ reg' = [reg EXCEPT !.i = reg.i + 1]
    /\ UNCHANGED <<objects, touched, idxLog, last, nOps>>

\* The first loop falls through to the second.
Pass2Begin ==
    /\ reg.pc = "pass1"
    /\ Pass1Done(reg.i, Entities)
    /\ reg' = [reg EXCEPT !.pc = "pass2", !.i = 1, !.j = 1]
    /\ UNCHANGED <<store, objects, touched, idxLog, last, nOps, sequelize>>

\* In the second loop, at entity i: its associations are walked when
\* sequelize.models[entity.name] is not null and there is a j-th key left.
HasNextAssociation ==
    /\ reg.pc = "pass2"
    /\ reg.i <= Len(Entities)
    /\ ModelOf(sequelize[reg.run], Entities[reg.i]) # Undefined
    /\ reg.j <= Len(getMeta(store[Entities[reg.i]], Entities[reg.i]).associations)

\* One association: the engine's method is called with sequelize.models[targetName],
\* whatever that is, and returns; the result is stored on the model.
Pass2Step ==
    /\ HasNextAssociation
    /\ LET entity == Entities[reg.i]
           meta == getMeta(store[entity], entity)
           assn == meta.associations[reg.j]
           target == ModelOf(sequelize[reg.run], assn.val.target)
       IN  /\ store' = [store EXCEPT ![entity] = getMetaOnInstance(@, entity)]
           /\ sequelize' = [sequelize EXCEPT ![reg.run] =
                                associate(@, entity, assn.key, assn.val, target)]
    /\ reg' = [reg EXCEPT !.j = reg.j + 1]
    /\ UNCHANGED <<objects, touched, idxLog, last, nOps>>

\* The same call when the engine is handed an undefined target and throws:
\* registerEntities has no handler, so the exception leaves it.
Pass2Throws ==
    /\ HasNextAssociation
    /\ LET entity == Entities[reg.i]
           meta == getMeta(store[entity], entity)
           assn == meta.associations[reg.j]
           target == ModelOf(sequelize[reg.run], assn.val.target)
       IN  /\ target = Undefined
           /\ store' = [store EXCEPT ![entity] = getMetaOnInstance(@, entity)]
           /\ sequelize' = [sequelize EXCEPT ![reg.run] =
                                rejected(@, entity, assn.val, target)]
    /\ reg' = [reg EXCEPT !.pc = "ended", !.outcome[reg.run] = "thrown"]
    /\ UNCHANGED <<objects, touched, idxLog, last, nOps>>

\* The second loop moves to the next entity.
Pass2Next ==
    /\ reg.pc = "pass2"
    /\ reg.i <= Len(Entities)
    /\ ~HasNextAssociation
    /\ store' = [store EXCEPT ![Entities[reg.i]] =
                            getMetaOnInstance(@, Entities[reg.i])]
    /\ reg' = [reg EXCEPT !.i = reg.i + 1, !.j = 1]
    /\ UNCHANGED <<objects, touched, idxLog, last, nOps, sequelize>>

\* return sequelize.models
Return ==
    /\ reg.pc = "pass2"
    /\ reg.i > Len(Entities)
    /\ reg' = [reg EXCEPT !.pc = "ended", !.outcome[reg.run] = "returned"]
    /\ UNCHANGED <<store, objects, touched, idxLog, last, nOps, sequelize>>

\* The decorators applied to one class, as many times and in any order.
NextStore ==
    \/ \E c \in StoreClasses,
          name \in {NoName, StrName("T"), ObjName([tableName |-> "t2"])},
          options \in {<<>>} \cup {<<o>> : o \in EntityOptions} :
            nOps < MaxDecor /\ Entity(c, name, options)
    \/ \E c \in StoreClasses, key \in Keys, attribute \in Attrs :
            nOps < MaxDecor /\ Column(c, key, attribute)
    \/ \E c \in StoreClasses, key \in Keys :
            nOps < MaxDecor /\ CreatedDateColumn(c, key)
    \/ \E c \in StoreClasses, key \in Keys :
            nOps < MaxDecor /\ UpdatedDateColumn(c, key)
    \/ \E c \in StoreClasses, key \in Keys :
            nOps < MaxDecor /\ PrimaryGeneratedColumn(c, key)
    \/ \E c \in StoreClasses, key \in Keys, options \in AssocOptions :
            nOps < MaxDecor /\ HasOne(c, key, "B", options)
    \/ \E c \in StoreClasses, key \in Keys, options \in AssocOptions :
            nOps < MaxDecor /\ HasMany(c, key, "B", options)
    \/ \E c \in StoreClasses, key \in Keys, options \in AssocOptions :
            nOps < MaxDecor /\ BelongsTo(c, key, "B", options)
    \/ \E c \in StoreClasses, key \in Keys, options \in ManyOptions :
            nOps < MaxDecor /\ ManyToMany(c, key, "B", options)
    \/ \E c \in StoreClasses, key \in Keys, options \in IndexOptions :
            nOps < MaxDecor /\ Index(c, key, options)

SpecStore == Init /\ [][NextStore]_vars

\* Two classes are decorated, then registered.
Next ==
    \/ \E c \in Classes, name \in {NoName, StrName("T"), ObjName([tableName |-> "t1"])} :
            nOps < MaxSetup /\ Entity(c, name, <<>>)
    \/ \E c \in Classes : nOps < MaxSetup /\ Column(c, "k1", Attr1)
    \/ \E c \in Classes : nOps < MaxSetup /\ PrimaryGeneratedColumn(c, "k1")
    \/ \E c \in Classes : nOps < MaxSetup /\ CreatedDateColumn(c, "k2")
    \/ \E c \in Classes : nOps < MaxSetup /\ Index(c, "k1", <<[name |-> "n1"]>>)
    \/ \E c \in Classes, target \in Classes :
            nOps < MaxSetup /\ HasOne(c, "k2", target, <<>>)
    \/ \E c \in Classes, key \in Keys, target \in Classes, options \in AssocOptions :
            nOps < MaxSetup /\ BelongsTo(c, key, target, options)
    \/ \E c \in Classes, target \in Classes :
            nOps < MaxSetup /\ HasMany(c, "k1", target, <<>>)
    \/ \E c \in Classes, target \in Classes :
            nOps < MaxSetup /\ ManyToMany(c, "k1", target, NewOptions([through |-> "J"]))
    \/ registerEntities
    \/ Pass1Step
    \/ Pass2Begin
    \/ Pass2Step
    \/ Pass2Throws
    \/ Pass2Next
    \/ Return

Spec == Init /\ [][Next]_vars

(***************************************************************************)
(* Properties.                                                             *)
(***************************************************************************)

Calls(run) == sequelize[run].calls

Models(run) == sequelize[run].models

\* The record the decorators applied to class c last wrote to: what they
\* accumulated on the class (an empty record when c was never decorated).
Accumulated(c) == IF touched[c] = 0 THEN NewMeta(c) ELSE store[c][touched[c]]

\* A step that is one decorator application.
DecoratorStep == nOps' = nOps + 1

\* C1: for every class of the list, pass 1 defines a model whose name, columns
\* and options are those the decorators accumulated on the class, whichever way
\* Entity was applied (the n-th define call of a run is for the n-th class).
C1_Pass1DefinesAccumulated ==
    \A run \in 1..2 : \A n \in 1..Len(Calls(run)) :
        Calls(run)[n].op = "define" =>
            LET acc == Accumulated(reg.entities[run][n])
            IN  /\ Calls(run)[n].name = acc.name
                /\ acc.name \in DOMAIN Models(run)
                /\ Models(run)[acc.name].fields = acc.fields
                /\ Models(run)[acc.name].options = DefineOptions(acc)

\* C1 holds for the classes whose record still carries the class's name
\* (Entity applied with no string, or with the class's own name).
C1_HoldsWithoutRename ==
    \A run \in 1..2 : \A n \in 1..Len(Calls(run)) :
        (Calls(run)[n].op = "define"
            /\ Accumulated(reg.entities[run][n]).name = reg.entities[run][n]) =>
            LET acc == Accumulated(reg.entities[run][n])
            IN  /\ Calls(run)[n].name = acc.name
                /\ acc.name \in DOMAIN Models(run)
                /\ Models(run)[acc.name].fields = acc.fields
                /\ Models(run)[acc.name].options = DefineOptions(acc)

NoAssociations(list) ==
    \A c \in Range(list) : \A r \in 1..Len(store[c]) : store[c][r].associations = <<>>

EntityNames(list) == {Accumulated(c).name : c \in Range(list)}

\* C2: registering N distinct classes without associations (and with N distinct
\* entity names) on a new engine defines exactly N models and returns exactly N
\* handles, keyed by the entity names stored in the metadata.
C2_HandlesKeyedByEntityName ==
    \A run \in 1..2 :
        (/\ reg.outcome[run] = "returned"
         /\ NoAssociations(reg.entities[run])
         /\ Cardinality(EntityNames(reg.entities[run])) = Len(reg.entities[run])) =>
            /\ Len(Calls(run)) = Len(reg.entities[run])
            /\ DOMAIN Models(run) = EntityNames(reg.entities[run])

\* C3: registration never throws, and the engine is never asked to create an
\* association whose target has no model (so no accessor is stored for it).
C3_MissingTargetSkipped ==
    \A run \in 1..2 :
        /\ reg.outcome[run] # "thrown"
        /\ \A n \in 1..Len(Calls(run)) :
            Calls(run)[n].op # "define" => Calls(run)[n].target # Undefined

\* C4: in every run, when an association-creation call is made every class of
\* the list has already been defined, and no define call follows it.
C4_Pass1BeforePass2 ==
    \A run \in 1..2 : \A n \in 1..Len(Calls(run)) :
        Calls(run)[n].op # "define" =>
            /\ \A c \in Range(reg.entities[run]) :
                \E m \in 1..(n - 1) :
                    Calls(run)[m].op = "define" /\ Calls(run)[m].name = c
            /\ \A m \in n..Len(Calls(run)) : Calls(run)[m].op # "define"

\* An association call was made in a run over two classes.
C4_Witness ==
    /\ Len(reg.entities[1]) = 2
    /\ \E n \in 1..Len(Calls(1)) : Calls(1)[n].op = BELONGS_TO

\* C5: two registrations of the same classes in different orders that both
\* return leave the same models, each with the same accessors (method, target,
\* options, property name).
C5_OrderIndependent ==
    (reg.outcome[1] = "returned" /\ reg.outcome[2] = "returned") =>
        Models(1) = Models(2)

\* [A, B] and [B, A] were both registered and A's model carries a belongsTo
\* accessor whose target is B's model.
C5_Witness ==
    /\ reg.outcome = <<"returned", "returned">>
    /\ reg.entities = << <<"A", "B">>, <<"B", "A">> >>
    /\ "A" \in DOMAIN Models(2)
    /\ \E n \in 1..Len(Models(2)["A"].props) :
        /\ Models(2)["A"].props[n].val.method = BELONGS_TO
        /\ Models(2)["A"].props[n].val.target = "B"

\* The options ManyToMany was called with carry a through entry.
HasThrough(options) ==
    /\ OptionsObject(options) # <<>>
    /\ "through" \in DOMAIN OptionsObject(options)[1]

\* The associations of a record as values: each with the content of its options
\* object in the given heap.
AssociationValues(meta, heap) ==
    [n \in 1..Len(meta.associations) |->
        [key |-> meta.associations[n].key,
         val |-> [method |-> meta.associations[n].val.method,
                  target |-> meta.associations[n].val.target,
                  association |-> heap[meta.associations[n].val.association]]]]

\* C6: ManyToMany without a through option throws and leaves the associations
\* of the class as they were; with one it does not throw and the property key
\* holds a belongsToMany association.
C6_ManyToManyNeedsThrough ==
    [][(DecoratorStep /\ last'.op = "ManyToMany") =>
        LET c == last'.cls
            before == getMeta(store[c], c)
            after == store'[c][getMetaIdx(store[c], c)]
        IN  IF HasThrough(last'.arg[2])
            THEN /\ ~last'.threw
                 /\ ObjHas(after.associations, last'.key)
                 /\ ObjGet(after.associations, last'.key).method = BELONGS_TO_MANY
            ELSE /\ last'.threw
                 /\ AssociationValues(after, objects')
                        = AssociationValues(before, objects)]_vars

\* ManyToMany just threw on one key while another key holds a belongsToMany.
C6_Witness ==
    /\ last.op = "ManyToMany"
    /\ last.threw
    /\ LET meta == getMeta(store[last.cls], last.cls)
       IN  /\ ~ObjHas(meta.associations, last.key)
           /\ \E n \in 1..Len(meta.associations) :
                meta.associations[n].val.method = BELONGS_TO_MANY

\* The keys Index was applied to with this name on record r of class c, in order.
LoggedKeys(c, r, name) ==
    LET sel == SelectSeq(idxLog, LAMBDA e : e.cls = c /\ e.rec = r /\ e.name = name)
    IN  [n \in 1..Len(sel) |-> sel[n].key]

IndexName(meta, ptr) == GetKey(meta.heap[ptr].props, "name")

\* C7: in every metadata record, the index of a given name has as fields exactly
\* the keys Index was applied to with that name, in application order; keys
\* applied with another name or with no name are not among them.
C7_IndexFieldsInOrder ==
    \A c \in Classes : \A r \in 1..Len(store[c]) : \A name \in IndexNames :
        LET meta == store[c][r]
        IN  /\ (LoggedKeys(c, r, name) # <<>>) = (FindIndex(meta, name) # 0)
            /\ \A n \in 1..Len(Indexes(meta)) :
                IndexName(meta, Indexes(meta)[n]) = name =>
                    meta.heap[Indexes(meta)[n]].fields = LoggedKeys(c, r, name)

\* Index n1 was applied to k1 then k2, and an index of another name exists.
C7_Witness ==
    \E r \in 1..Len(store["A"]) :
        /\ LoggedKeys("A", r, "n1") = <<"k1", "k2">>
        /\ FindIndex(store["A"][r], "n2") # 0

SameApplication ==
    /\ last.op # "none"
    /\ last'.op = last.op
    /\ last'.cls = last.cls
    /\ last'.key = last.key
    /\ last'.arg = last.arg

\* What the claims call the metadata record: name, fields, associations and
\* options, the index list included.
RecordValue(meta, heap) ==
    [name |-> meta.name, fields |-> meta.fields,
     associations |-> AssociationValues(meta, heap), options |-> DefineOptions(meta)]

\* C8: applying the decorator just applied once more, with the same arguments,
\* to the same class and key, leaves the class's metadata record equal to what
\* it was after the first application.
C8_Idempotent ==
    [][(DecoratorStep /\ SameApplication) =>
        RecordValue(store'[last.cls][touched'[last.cls]], objects')
            = RecordValue(store[last.cls][touched[last.cls]], objects)]_vars

\* The options object Entity merges into the record: its second argument, or
\* its first when that is an object and no second is given.
EntityPassed(arg) ==
    IF arg[2] # <<>> THEN arg[2][1]
    ELSE IF arg[1].kind = "object" THEN arg[1].obj ELSE EmptyObj

ObjSameExcept(o1, o2, key) ==
    \A k \in Keys \ {key} :
        /\ ObjHas(o1, k) = ObjHas(o2, k)
        /\ ObjHas(o1, k) => ObjGet(o1, k) = ObjGet(o2, k)

OptsSameExcept(o1, o2, ks) ==
    \A k \in ((DOMAIN o1) \cup (DOMAIN o2)) \ ks :
        k \in DOMAIN o1 /\ k \in DOMAIN o2 /\ o1[k] = o2[k]

\* The association a decorator is asked to store under key: the options it was
\* given, with as set to the key.
Declared(op, key, arg) ==
    [method |-> CASE op = "HasOne" -> HAS_ONE
                  [] op = "HasMany" -> HAS_MANY
                  [] op = "BelongsTo" -> BELONGS_TO
                  [] OTHER -> BELONGS_TO_MANY,
     target |-> arg[1],
     association |->
        LET given == IF OptionsObject(arg[2]) = <<>> THEN EmptyObj
                     ELSE OptionsObject(arg[2])[1]
        IN  [k \in (DOMAIN given) \cup {"as"} |-> IF k = "as" THEN key ELSE given[k]]]

ColumnOps == {"Column", "PrimaryGeneratedColumn"}

AssociationOps == {"HasOne", "HasMany", "BelongsTo", "ManyToMany"}

TimestampOps == {"CreatedDateColumn", "UpdatedDateColumn"}

\* The other records of the class and the other classes keep their value.
OthersUnchanged(c, idx) ==
    /\ Len(store'[c]) = Len(store[c])
    /\ \A r \in 1..Len(store[c]) :
        r # idx => RecordValue(store'[c][r], objects') = RecordValue(store[c][r], objects)
    /\ \A d \in Classes \ {c} :
        /\ Len(store'[d]) = Len(store[d])
        /\ \A r \in 1..Len(store[d]) :
            RecordValue(store'[d][r], objects') = RecordValue(store[d][r], objects)

\* In the record it writes, a column, association or timestamp decorator sets
\* its entry to the supplied value and leaves every other entry as it was.
PropertyDecoratorFrame(d, before, after) ==
    LET assnBefore == AssociationValues(before, objects)
        assnAfter == AssociationValues(after, objects')
    IN  /\ after.name = before.name
        /\ after.heap = before.heap
        /\ d.op \in ColumnOps =>
            /\ ObjHas(after.fields, d.key)
            /\ ObjGet(after.fields, d.key)
                = (IF d.op = "Column" THEN d.arg[1] ELSE PrimaryAttr)
            /\ ObjSameExcept(before.fields, after.fields, d.key)
            /\ assnAfter = assnBefore
            /\ after.options = before.options
        /\ d.op \in AssociationOps =>
            /\ ObjHas(assnAfter, d.key)
            /\ ObjGet(assnAfter, d.key) = Declared(d.op, d.key, d.arg)
            /\ ObjSameExcept(assnBefore, assnAfter, d.key)
            /\ after.fields = before.fields
            /\ after.options = before.options
        /\ d.op \in TimestampOps =>
            LET k == IF d.op = "CreatedDateColumn" THEN "createdAt" ELSE "updatedAt"
            IN  /\ k \in DOMAIN after.options
                /\ after.options[k] = d.key
                /\ OptsSameExcept(before.options, after.options, {k})
                /\ after.fields = before.fields
                /\ assnAfter = assnBefore

\* C9: on a class that already has a record, a decorator writes the supplied
\* value into the entry it touches (for Entity: every option key it is passed)
\* and changes nothing else: no other entry of the record, no other record.
C9_OverwritesTouchedEntry ==
    [][(/\ DecoratorStep
        /\ ~last'.threw
        /\ last'.op \in ColumnOps \cup AssociationOps \cup TimestampOps \cup {"Entity"}
        /\ FindMeta(store[last'.cls], last'.cls) # 0) =>
        LET c == last'.cls
            idx == getMetaIdx(store[c], c)
            before == store[c][idx]
            after == store'[c][idx]
        IN  /\ OthersUnchanged(c, idx)
            /\ last'.op # "Entity" => PropertyDecoratorFrame(last', before, after)
            /\ last'.op = "Entity" =>
                LET passed == EntityPassed(last'.arg)
                IN  /\ \A k \in DOMAIN passed :
                        k \in DOMAIN after.options /\ after.options[k] = passed[k]
                    /\ OptsSameExcept(before.options, after.options, DOMAIN passed)
                    /\ after.fields = before.fields
                    /\ AssociationValues(after, objects')
                        = AssociationValues(before, objects)
                    /\ after.heap = before.heap]_vars

\* C10: no metadata record lists two index entries with the same name.
C10_OneEntryPerIndexName ==
    \A c \in Classes : \A r \in 1..Len(store[c]) :
        LET meta == store[c][r]
        IN  \A n, m \in 1..Len(Indexes(meta)) :
                (n # m /\ IndexName(meta, Indexes(meta)[n]) # Undefined) =>
                    IndexName(meta, Indexes(meta)[n]) # IndexName(meta, Indexes(meta)[m])

====
